---------------------------- MODULE Spec2Model ----------------------------
(***************************************************************************)
(* Model of src/decision/engine.go: the parsing and validation of one AI   *)
(* response (extractCoTTrace, extractDecisions, findMatchingBracket,       *)
(* fixMissingQuotes, validateDecisions, validateDecision,                  *)
(* parseFullDecisionResponse, GetFullDecision), and the collection of the  *)
(* market data of a cycle (fetchMarketDataForContext).                     *)
(*                                                                         *)
(* Numbers.  The float64 fields of a Decision (PositionSizeUSD, StopLoss,  *)
(* TakeProfitLevels) and the account equity are modelled as integers and   *)
(* every arithmetic expression of the code is evaluated exactly, as a      *)
(* fraction: the factors 1.5 and 0.01 of the position cap and the factor   *)
(* 0.2 of the assumed entry are kept exact by carrying a scale (PosScale,  *)
(* PriceScale).  Rounding of float64 is not modelled.                      *)
(***************************************************************************)
EXTENDS Integers, Sequences, FiniteSets, TLC

VARIABLES
    pc,          \* position of the run
    ctx,         \* Context: [TotalEquity, BTCETHLeverage, AltcoinLeverage]
    aiResponse,  \* the response of the AI, GetFullDecision's aiResponse
    parsed,      \* what parseFullDecisionResponse returned and extracted
    returned,    \* what GetFullDecision returned
    decisions,   \* []Decision handed to validateDecisions
    verr,        \* the error validateDecisions returned (NoError for nil)
    marketGet,   \* what market.Get returns for each symbol
    oiTopGet,    \* what pool.GetOITopPositions returns
    symbolSet,   \* fetchMarketDataForContext: symbols its loop has yet to visit
    fetchErr,    \* what fetchMarketDataForContext returned
    rawText,     \* the text handed to fixMissingQuotes
    fixed        \* the results of its successive applications to rawText

fetchVars == <<marketGet, oiTopGet, symbolSet, fetchErr>>

quoteVars == <<rawText, fixed>>

vars ==
    <<pc, ctx, aiResponse, parsed, returned, decisions, verr, marketGet,
      oiTopGet, symbolSet, fetchErr, rawText, fixed>>

\* no market data is being collected
NoFetch ==
    /\ marketGet = <<>>
    /\ oiTopGet = <<>>
    /\ symbolSet = {}
    /\ fetchErr = "none"

\* no text is being normalized
NoQuotes ==
    /\ rawText = <<>>
    /\ fixed = <<>>

----------------------------------------------------------------------------
(* Bounds of the model *)

\* prices (stop loss, take-profit levels) range over 0..MaxPrice
MaxPrice == 4
\* longest batch of sample records handed to validateDecisions
MaxBatch == 3

----------------------------------------------------------------------------
(* Errors.  An error is a record: rule names the return statement that     *)
(* built it, args are the numbers formatted into its message.              *)

NoError == [rule |-> "nil", index |-> 0, args |-> <<>>]

Err(rule, args) == [rule |-> rule, index |-> 0, args |-> args]

----------------------------------------------------------------------------
(* validateDecision, engine.go 815-926 *)

\* variant: the two actions of the record schema are recognized as well
validActionsOfSchema ==
    {"open_long", "open_short", "close_long", "close_short", "hold", "wait",
     "update_stop", "partial_close"}

validActions ==
    {"open_long", "open_short", "close_long", "close_short", "hold", "wait"}

isOpen(d) == d.Action = "open_long" \/ d.Action = "open_short"

isBtcEth(d) == d.Symbol = "BTCUSDT" \/ d.Symbol = "ETHUSDT"

\* position values are carried times PosScale, so that accountEquity * 1.5
\* and maxPositionValue * 0.01 are integers
PosScale == 2 * 100

\* mutant: only BTCUSDT gets the major-pair ceiling
maxLeverageBtcOnly(d, btcEthLeverage, altcoinLeverage) ==
    IF d.Symbol = "BTCUSDT" THEN btcEthLeverage ELSE altcoinLeverage

maxLeverage(d, btcEthLeverage, altcoinLeverage) ==
    IF isBtcEth(d) THEN btcEthLeverage ELSE altcoinLeverage

\* accountEquity * 10 or accountEquity * 1.5, times PosScale
maxPositionValue(d, accountEquity) ==
    IF isBtcEth(d) THEN accountEquity * 10 * PosScale
                   ELSE accountEquity * 3 * 100

\* mutant: no tolerance on the cap
toleranceNone(mpv) == 0

\* maxPositionValue * 0.01, times PosScale (maxPositionValue is a multiple
\* of 100, the division is exact)
tolerance(mpv) == mpv \div 100

leverageBad(d, maxLev) == d.Leverage <= 0 \/ d.Leverage > maxLev

positionTooLarge(d, mpv) == d.PositionSizeUSD * PosScale > mpv + tolerance(mpv)

\* index of the first take-profit level that is <= 0, 0 when there is none
RECURSIVE firstNonPositive(_, _)
firstNonPositive(tps, i) ==
    IF i > Len(tps) THEN 0
    ELSE IF tps[i] <= 0 THEN i
    ELSE firstNonPositive(tps, i + 1)

\* prices of the risk:reward computation are carried times PriceScale, so
\* that (tp1 - stop) * 0.2 is an integer
PriceScale == 2 + 3

\* mutant: the entry 40% of the way from the stop to the first take-profit
entryPriceFar(d) ==
    IF d.Action = "open_long"
    THEN PriceScale * d.StopLoss + 2 * (d.TakeProfitLevels[1] - d.StopLoss)
    ELSE PriceScale * d.StopLoss - 2 * (d.StopLoss - d.TakeProfitLevels[1])

\* entryPrice times PriceScale
entryPrice(d) ==
    IF d.Action = "open_long"
    THEN PriceScale * d.StopLoss + (d.TakeProfitLevels[1] - d.StopLoss)
    ELSE PriceScale * d.StopLoss - (d.StopLoss - d.TakeProfitLevels[1])

\* a fraction n/d with d > 0
Frac(n, d) == IF d < 0 THEN [n |-> -n, d |-> -d] ELSE [n |-> n, d |-> d]

FracZero == [n |-> 0, d |-> 1]

FracPos(a) == a.n > 0

FracDiv(a, b) == Frac(a.n * b.d, a.d * b.n)

\* a < k for an integer k
FracLess(a, k) == a.n < k * a.d

\* (entryPrice - StopLoss) / entryPrice * 100, or the short's mirror image
riskPercent(d) ==
    LET e == entryPrice(d)
    IN  IF d.Action = "open_long"
        THEN Frac((e - PriceScale * d.StopLoss) * 100, e)
        ELSE Frac((PriceScale * d.StopLoss - e) * 100, e)

\* variant: the reward is measured to the second take-profit
rewardPercentToSecond(d) ==
    LET e == entryPrice(d)
    IN  IF d.Action = "open_long"
        THEN Frac((PriceScale * d.TakeProfitLevels[2] - e) * 100, e)
        ELSE Frac((e - PriceScale * d.TakeProfitLevels[2]) * 100, e)

rewardPercent(d) ==
    LET e == entryPrice(d)
    IN  IF d.Action = "open_long"
        THEN Frac((PriceScale * d.TakeProfitLevels[1] - e) * 100, e)
        ELSE Frac((e - PriceScale * d.TakeProfitLevels[1]) * 100, e)

\* var riskRewardRatio float64 stays 0 unless riskPercent > 0
riskRewardRatio(d) ==
    IF FracPos(riskPercent(d))
    THEN FracDiv(rewardPercent(d), riskPercent(d))
    ELSE FracZero

\* mutant: equal adjacent take-profits pass
orderingErrorNonStrict(d) ==
    LET tp == d.TakeProfitLevels
    IN  IF d.Action = "open_long"
        THEN IF d.StopLoss >= tp[1]
             THEN Err("stop_order", <<d.StopLoss, tp[1]>>)
             ELSE IF tp[1] > tp[2] \/ tp[2] > tp[3]
             THEN Err("tp_order", <<tp[1], tp[2], tp[3]>>)
             ELSE NoError
        ELSE IF d.StopLoss <= tp[1]
             THEN Err("stop_order", <<d.StopLoss, tp[1]>>)
             ELSE IF tp[1] < tp[2] \/ tp[2] < tp[3]
             THEN Err("tp_order", <<tp[1], tp[2], tp[3]>>)
             ELSE NoError

\* the direction-dependent ordering checks, engine.go 872-891
orderingError(d) ==
    LET tp == d.TakeProfitLevels
    IN  IF d.Action = "open_long"
        THEN IF d.StopLoss >= tp[1]
             THEN Err("stop_order", <<d.StopLoss, tp[1]>>)
             ELSE IF tp[1] >= tp[2] \/ tp[2] >= tp[3]
             THEN Err("tp_order", <<tp[1], tp[2], tp[3]>>)
             ELSE NoError
        ELSE IF d.StopLoss <= tp[1]
             THEN Err("stop_order", <<d.StopLoss, tp[1]>>)
             ELSE IF tp[1] <= tp[2] \/ tp[2] <= tp[3]
             THEN Err("tp_order", <<tp[1], tp[2], tp[3]>>)
             ELSE NoError

riskRewardError(d) ==
    IF FracLess(riskRewardRatio(d), 2)
    THEN Err("risk_reward", <<d.StopLoss, d.TakeProfitLevels[1]>>)
    ELSE NoError

\* mutant: the stop is checked before the position size
validateDecisionStopFirst(d, accountEquity, btcEthLeverage, altcoinLeverage) ==
    LET maxLev == maxLeverage(d, btcEthLeverage, altcoinLeverage)
        mpv    == maxPositionValue(d, accountEquity)
        badTp  == firstNonPositive(d.TakeProfitLevels, 1)
    IN  IF d.Action \notin validActions THEN Err("action", <<>>)
        ELSE IF ~isOpen(d) THEN NoError
        ELSE IF leverageBad(d, maxLev)
             THEN Err("leverage", <<maxLev, d.Leverage>>)
        ELSE IF d.StopLoss <= 0 THEN Err("stop_positive", <<>>)
        ELSE IF d.PositionSizeUSD <= 0
             THEN Err("size_positive", <<d.PositionSizeUSD>>)
        ELSE IF positionTooLarge(d, mpv)
             THEN Err("size_cap", <<mpv, d.PositionSizeUSD>>)
        ELSE IF Len(d.TakeProfitLevels) # 3
             THEN Err("tp_count", <<Len(d.TakeProfitLevels)>>)
        ELSE IF badTp # 0
             THEN Err("tp_positive", <<badTp, d.TakeProfitLevels[badTp]>>)
        ELSE IF orderingError(d) # NoError THEN orderingError(d)
        ELSE riskRewardError(d)

validateDecision(d, accountEquity, btcEthLeverage, altcoinLeverage) ==
    LET maxLev == maxLeverage(d, btcEthLeverage, altcoinLeverage)
        mpv    == maxPositionValue(d, accountEquity)
        badTp  == firstNonPositive(d.TakeProfitLevels, 1)
    IN  IF d.Action \notin validActions THEN Err("action", <<>>)
        ELSE IF ~isOpen(d) THEN NoError
        ELSE IF leverageBad(d, maxLev)
             THEN Err("leverage", <<maxLev, d.Leverage>>)
        ELSE IF d.PositionSizeUSD <= 0
             THEN Err("size_positive", <<d.PositionSizeUSD>>)
        ELSE IF positionTooLarge(d, mpv)
             THEN Err("size_cap", <<mpv, d.PositionSizeUSD>>)
        ELSE IF d.StopLoss <= 0 THEN Err("stop_positive", <<>>)
        ELSE IF Len(d.TakeProfitLevels) # 3
             THEN Err("tp_count", <<Len(d.TakeProfitLevels)>>)
        ELSE IF badTp # 0
             THEN Err("tp_positive", <<badTp, d.TakeProfitLevels[badTp]>>)
        ELSE IF orderingError(d) # NoError THEN orderingError(d)
        ELSE riskRewardError(d)

----------------------------------------------------------------------------
(* validateDecisions, engine.go 783-791 *)

\* mutant: the record is named by its 0-based index
wrapIndexZeroBased(i, e) == [e EXCEPT !.index = i - 1]

\* fmt.Errorf("决策 #%d 验证失败: %w", i+1, err)
wrapIndex(i, e) == [e EXCEPT !.index = i]

RECURSIVE validateFrom(_, _, _, _, _)
validateFrom(ds, i, accountEquity, btcEthLeverage, altcoinLeverage) ==
    IF i > Len(ds) THEN NoError
    ELSE LET e == validateDecision(ds[i], accountEquity, btcEthLeverage,
                                   altcoinLeverage)
         IN  IF e # NoError THEN wrapIndex(i, e)
             ELSE validateFrom(ds, i + 1, accountEquity, btcEthLeverage,
                               altcoinLeverage)

validateDecisions(ds, accountEquity, btcEthLeverage, altcoinLeverage) ==
    validateFrom(ds, 1, accountEquity, btcEthLeverage, altcoinLeverage)

----------------------------------------------------------------------------
(* Strings.  A Go string is modelled as a sequence of tokens.  A token is  *)
(* one character ("[", "]", "{", "}", ",", ":", the ASCII quote, a digit,  *)
(* a blank, a line break), one typographic quote (named by its code point, *)
(* "U+201C"), or a run of letters kept together ("symbol", "open_long").   *)
(* Indices are Go's: 0-based, -1 for not found.  No token is a backslash.  *)

\* unicode.IsSpace, as far as the tokens go
Whitespace == {" ", "\n", "\t", "\r"}

\* the positions 1..Len(s) in increasing order
Positions(s) == [k \in 1..Len(s) |-> k]

\* strings.Index(s, c)
Index(s, c) ==
    LET at == SelectSeq(Positions(s), LAMBDA k : s[k] = c)
    IN  IF at = <<>> THEN -1 ELSE at[1] - 1

\* s[lo:hi]
Slice(s, lo, hi) == SubSeq(s, lo + 1, hi)

RECURSIVE TrimLeft(_)
TrimLeft(s) ==
    IF s # <<>> /\ Head(s) \in Whitespace THEN TrimLeft(Tail(s)) ELSE s

RECURSIVE TrimRight(_)
TrimRight(s) ==
    IF s # <<>> /\ s[Len(s)] \in Whitespace
    THEN TrimRight(SubSeq(s, 1, Len(s) - 1))
    ELSE s

\* strings.TrimSpace(s)
TrimSpace(s) == TrimRight(TrimLeft(s))

\* variant: only the first occurrence is replaced
ReplaceFirst(s, old, new) ==
    [i \in 1..Len(s) |->
        IF s[i] = old /\ \A j \in 1..(i - 1) : s[j] # old THEN new ELSE s[i]]

\* strings.ReplaceAll(s, old, new) for one-token old and new
ReplaceAll(s, old, new) ==
    [i \in 1..Len(s) |-> IF s[i] = old THEN new ELSE s[i]]

----------------------------------------------------------------------------
(* extractCoTTrace, engine.go 728-740 *)

extractCoTTrace(response) ==
    LET jsonStart == Index(response, "[")
    IN  IF jsonStart > 0
        THEN TrimSpace(Slice(response, 0, jsonStart))
        ELSE TrimSpace(response)

----------------------------------------------------------------------------
(* findMatchingBracket, engine.go 793-813 *)

\* the loop, engine.go 800-810.  Only "[" and "]" change its state, so it
\* is run over bs, the indices >= start of the brackets of s in increasing
\* order: k is the next one to look at, depth the depth reached so far
RECURSIVE scanBrackets(_, _, _, _)
scanBrackets(s, bs, k, depth) ==
    IF k > Len(bs) THEN -1
    ELSE IF s[bs[k] + 1] = "[" THEN scanBrackets(s, bs, k + 1, depth + 1)
    ELSE IF depth - 1 = 0 THEN bs[k]
    ELSE scanBrackets(s, bs, k + 1, depth - 1)

\* the indices i >= start with s[i] a bracket, in increasing order
bracketsFrom(s, start) ==
    LET at == SelectSeq(Positions(s),
                        LAMBDA k : k > start /\ s[k] \in {"[", "]"})
    IN  [k \in 1..Len(at) |-> at[k] - 1]

findMatchingBracket(s, start) ==
    IF start >= Len(s) \/ s[start + 1] # "[" THEN -1
    ELSE scanBrackets(s, bracketsFrom(s, start), 1, 0)

----------------------------------------------------------------------------
(* fixMissingQuotes, engine.go 774-781 *)

fixMissingQuotes(jsonStr) ==
    LET s1 == ReplaceAll(jsonStr, "U+201C", "\"")
        s2 == ReplaceAll(s1, "U+201D", "\"")
        s3 == ReplaceAll(s2, "U+2018", "'")
        s4 == ReplaceAll(s3, "U+2019", "'")
    IN  s4

----------------------------------------------------------------------------
(* json.Unmarshal([]byte(jsonContent), &decisions), engine.go 765-769, into *)
(* the Decision struct of engine.go 72-96: a JSON parser over the tokens    *)
(* (strings without escapes, integers, arrays, objects, true/false/null),   *)
(* then the typed decoding of an array of objects.                          *)

Digits == <<"0", "1", "2", "3", "4", "5", "6", "7", "8", "9">>

IsDigit(c) == \E k \in 1..10 : Digits[k] = c

DigitVal(c) == (CHOOSE k \in 1..10 : Digits[k] = c) - 1

\* a JSON value: t is its type, s the content of a string, n the value of a
\* number, items the elements of an array or the <<key, value>> members of
\* an object
JStr(content) == [t |-> "str", s |-> content, n |-> 0, items |-> <<>>]
JNum(n)       == [t |-> "num", s |-> <<>>, n |-> n, items |-> <<>>]
JArr(items)   == [t |-> "arr", s |-> <<>>, n |-> 0, items |-> items]
JObj(members) == [t |-> "obj", s |-> <<>>, n |-> 0, items |-> members]
JLit(word)    == [t |-> word, s |-> <<>>, n |-> 0, items |-> <<>>]

\* a parse: ok, the position after the value, the value
Parsed(pos, val) == [ok |-> TRUE, pos |-> pos, val |-> val]

ParseFail == [ok |-> FALSE, pos |-> 0, val |-> JLit("null")]

RECURSIVE skipSpace(_, _)
skipSpace(s, i) ==
    IF i <= Len(s) /\ s[i] \in Whitespace THEN skipSpace(s, i + 1) ELSE i

\* the string that opens at s[i]; j scans its content.  A raw line break or
\* tab in a string literal is a syntax error.
RECURSIVE parseString(_, _, _)
parseString(s, i, j) ==
    IF j > Len(s) THEN ParseFail
    ELSE IF s[j] = "\"" THEN Parsed(j + 1, JStr(SubSeq(s, i + 1, j - 1)))
    ELSE IF s[j] \in {"\n", "\t", "\r"} THEN ParseFail
    ELSE parseString(s, i, j + 1)

\* the digits from s[j] on, acc their value so far
RECURSIVE parseDigits(_, _, _)
parseDigits(s, j, acc) ==
    IF j <= Len(s) /\ IsDigit(s[j])
    THEN parseDigits(s, j + 1, acc * 10 + DigitVal(s[j]))
    ELSE [pos |-> j, n |-> acc]

\* an integer: an optional "-", then "0" or digits without a leading "0"
parseNumber(s, i) ==
    LET neg   == s[i] = "-"
        first == IF neg THEN i + 1 ELSE i
    IN  IF first > Len(s) \/ ~IsDigit(s[first]) THEN ParseFail
        ELSE IF s[first] = "0" /\ first < Len(s) /\ IsDigit(s[first + 1])
        THEN ParseFail
        ELSE LET r == parseDigits(s, first, 0)
             IN  Parsed(r.pos, JNum(IF neg THEN -r.n ELSE r.n))

RECURSIVE parseValue(_, _)
RECURSIVE parseElements(_, _, _)
RECURSIVE parseMembers(_, _, _)

\* the elements of an array from s[i] on, after "[" or a ","
parseElements(s, i, acc) ==
    LET v == parseValue(s, i)
        k == skipSpace(s, v.pos)
    IN  IF ~v.ok \/ k > Len(s) THEN ParseFail
        ELSE IF s[k] = ","
             THEN parseElements(s, skipSpace(s, k + 1), Append(acc, v.val))
        ELSE IF s[k] = "]" THEN Parsed(k + 1, JArr(Append(acc, v.val)))
        ELSE ParseFail

\* the members of an object from s[i] on, after "{" or a ","
parseMembers(s, i, acc) ==
    IF i > Len(s) \/ s[i] # "\"" THEN ParseFail
    ELSE LET key == parseString(s, i, i + 1)
             c   == skipSpace(s, key.pos)
         IN  IF ~key.ok \/ c > Len(s) \/ s[c] # ":" THEN ParseFail
             ELSE LET v == parseValue(s, skipSpace(s, c + 1))
                      k == skipSpace(s, v.pos)
                      m == Append(acc, <<key.val.s, v.val>>)
                  IN  IF ~v.ok \/ k > Len(s) THEN ParseFail
                      ELSE IF s[k] = ","
                           THEN parseMembers(s, skipSpace(s, k + 1), m)
                      ELSE IF s[k] = "}" THEN Parsed(k + 1, JObj(m))
                      ELSE ParseFail

parseValue(s, i) ==
    IF i > Len(s) THEN ParseFail
    ELSE IF s[i] = "\"" THEN parseString(s, i, i + 1)
    ELSE IF s[i] = "-" \/ IsDigit(s[i]) THEN parseNumber(s, i)
    ELSE IF s[i] \in {"true", "false", "null"} THEN Parsed(i + 1, JLit(s[i]))
    ELSE IF s[i] = "["
         THEN LET k == skipSpace(s, i + 1)
              IN  IF k <= Len(s) /\ s[k] = "]" THEN Parsed(k + 1, JArr(<<>>))
                  ELSE parseElements(s, k, <<>>)
    ELSE IF s[i] = "{"
         THEN LET k == skipSpace(s, i + 1)
              IN  IF k <= Len(s) /\ s[k] = "}" THEN Parsed(k + 1, JObj(<<>>))
                  ELSE parseMembers(s, k, <<>>)
    ELSE ParseFail

\* the whole text is one JSON value between optional white space
parseDocument(s) ==
    LET v == parseValue(s, skipSpace(s, 1))
    IN  IF v.ok /\ skipSpace(s, v.pos) > Len(s) THEN v ELSE ParseFail

\* the Go string of a string's content
RECURSIVE strOf(_)
strOf(content) ==
    IF content = <<>> THEN "" ELSE Head(content) \o strOf(Tail(content))

\* the zero value of Decision (the fields validation reads)
zeroDecision ==
    [Symbol |-> "", Action |-> "", Leverage |-> 0, PositionSizeUSD |-> 0,
     StopLoss |-> 0, TakeProfitLevels |-> <<>>]

stringKeys ==
    {"symbol", "action", "reasoning", "signal_type", "oi_signal",
     "oi_adjustment"}

numberKeys ==
    {"leverage", "position_size_usd", "stop_loss", "trailing_stop_pct",
     "checklist_passed", "risk_reward_ratio", "new_stop_loss",
     "close_percentage"}

IsNull(v) == v.t = "null"

\* whether value v can be stored in the field that key names
fieldTypeOk(key, v) ==
    IF key \in stringKeys THEN v.t = "str" \/ IsNull(v)
    ELSE IF key \in numberKeys THEN v.t = "num" \/ IsNull(v)
    ELSE IF key = "take_profit_levels"
         THEN \/ IsNull(v)
              \/ /\ v.t = "arr"
                 /\ \A k \in 1..Len(v.items) :
                        v.items[k].t = "num" \/ IsNull(v.items[k])
    ELSE TRUE

\* the record after member <<key, v>> is stored; unknown keys are ignored
\* and null leaves a field as it is
setField(d, key, v) ==
    IF IsNull(v) THEN d
    ELSE IF key = "symbol" THEN [d EXCEPT !.Symbol = strOf(v.s)]
    ELSE IF key = "action" THEN [d EXCEPT !.Action = strOf(v.s)]
    ELSE IF key = "leverage" THEN [d EXCEPT !.Leverage = v.n]
    ELSE IF key = "position_size_usd" THEN [d EXCEPT !.PositionSizeUSD = v.n]
    ELSE IF key = "stop_loss" THEN [d EXCEPT !.StopLoss = v.n]
    ELSE IF key = "take_profit_levels"
         THEN [d EXCEPT !.TakeProfitLevels =
                  [k \in 1..Len(v.items) |-> v.items[k].n]]
    ELSE d

RECURSIVE decodeMembers(_, _, _)
decodeMembers(members, k, d) ==
    IF k > Len(members) THEN d
    ELSE decodeMembers(members, k + 1,
                       setField(d, strOf(members[k][1]), members[k][2]))

\* whether array element v decodes into a Decision
elementTypeOk(v) ==
    \/ IsNull(v)
    \/ /\ v.t = "obj"
       /\ \A k \in 1..Len(v.items) :
              fieldTypeOk(strOf(v.items[k][1]), v.items[k][2])

decodeElement(v) ==
    IF IsNull(v) THEN zeroDecision ELSE decodeMembers(v.items, 1, zeroDecision)

\* json.Unmarshal: a syntax error or a value of the wrong type is an error
Unmarshal(jsonContent) ==
    LET doc == parseDocument(jsonContent)
    IN  IF ~doc.ok THEN [ok |-> FALSE, decisions |-> <<>>]
        ELSE IF IsNull(doc.val) THEN [ok |-> TRUE, decisions |-> <<>>]
        ELSE IF doc.val.t # "arr" THEN [ok |-> FALSE, decisions |-> <<>>]
        ELSE IF \E k \in 1..Len(doc.val.items) :
                    ~elementTypeOk(doc.val.items[k])
             THEN [ok |-> FALSE, decisions |-> <<>>]
        ELSE [ok |-> TRUE,
              decisions |-> [k \in 1..Len(doc.val.items) |->
                                decodeElement(doc.val.items[k])]]

----------------------------------------------------------------------------
(* Error messages.  A pipeline error is [kind, msg]: kind names the return  *)
(* statement that built it, msg is its text, a string.  The fixed Chinese   *)
(* texts of the format strings are single tokens, in English.               *)

RECURSIVE DigitsOf(_)
DigitsOf(n) ==
    IF n < 10 THEN <<Digits[n + 1]>>
    ELSE DigitsOf(n \div 10) \o <<Digits[(n % 10) + 1]>>

\* a number as %d prints it
NumTokens(n) == IF n < 0 THEN <<"-">> \o DigitsOf(-n) ELSE DigitsOf(n)

RECURSIVE ArgTokens(_)
ArgTokens(args) ==
    IF args = <<>> THEN <<>>
    ELSE <<" ">> \o NumTokens(Head(args)) \o ArgTokens(Tail(args))

NilErr == [kind |-> "nil", msg |-> <<>>]

Error(kind, msg) == [kind |-> kind, msg |-> msg]

\* err.Error() of the error validateDecisions returns
validationMessage(e) ==
    <<"decision #">> \o NumTokens(e.index) \o <<" validation failed: ", e.rule>>
        \o ArgTokens(e.args)

----------------------------------------------------------------------------
(* extractDecisions, engine.go 742-772 *)

Extraction(ds, err, arrayStart, arrayEnd, jsonContent) ==
    [decisions |-> ds, err |-> err, arrayStart |-> arrayStart,
     arrayEnd |-> arrayEnd, jsonContent |-> jsonContent]

extractDecisions(response) ==
    LET arrayStart == Index(response, "[")
    IN  IF arrayStart = -1
        THEN Extraction(<<>>, Error("no_start", <<"no JSON array start">>),
                        arrayStart, -1, <<>>)
        ELSE
        LET arrayEnd == findMatchingBracket(response, arrayStart)
        IN  IF arrayEnd = -1
            THEN Extraction(<<>>, Error("no_end", <<"no JSON array end">>),
                            arrayStart, arrayEnd, <<>>)
            ELSE
            LET jsonContent ==
                    fixMissingQuotes(
                        TrimSpace(Slice(response, arrayStart, arrayEnd + 1)))
                u == Unmarshal(jsonContent)
            IN  IF ~u.ok
                THEN Extraction(<<>>,
                         Error("json", <<"JSON parse failed: ", "\n",
                                         "JSON content: ">> \o jsonContent),
                         arrayStart, arrayEnd, jsonContent)
                ELSE Extraction(u.decisions, NilErr, arrayStart, arrayEnd,
                                jsonContent)

----------------------------------------------------------------------------
(* parseFullDecisionResponse, engine.go 700-726 *)

FullDecision(cotTrace, ds) ==
    [UserPrompt |-> <<>>, CoTTrace |-> cotTrace, Decisions |-> ds]

cotBanner == <<"\n", "\n", "=== AI CoT analysis ===", "\n">>

\* result and err are the two values returned; ex, ds and verr are the
\* locals they were computed from
\* the three returns of parseFullDecisionResponse, from its locals: the
\* rationale, the outcome of extractDecisions and that of validateDecisions
fullDecisionOf(cotTrace, ex, e) ==
    IF ex.err # NilErr
    THEN [result |-> FullDecision(cotTrace, <<>>),
          err |-> Error(ex.err.kind,
                        <<"extract decisions failed: ">> \o ex.err.msg
                            \o cotBanner \o cotTrace),
          ex |-> ex, ds |-> <<>>, verr |-> NoError]
    ELSE IF e # NoError
    THEN [result |-> FullDecision(cotTrace, ex.decisions),
          err |-> Error("validation",
                        <<"decision validation failed: ">>
                            \o validationMessage(e)
                            \o cotBanner \o cotTrace),
          ex |-> ex, ds |-> ex.decisions, verr |-> e]
    ELSE [result |-> FullDecision(cotTrace, ex.decisions),
          err |-> NilErr,
          ex |-> ex, ds |-> ex.decisions, verr |-> NoError]

validatedExtraction(cotTrace, ex, accountEquity, btcEthLeverage, altcoinLeverage) ==
    fullDecisionOf(cotTrace, ex,
                   validateDecisions(ex.decisions, accountEquity,
                                     btcEthLeverage, altcoinLeverage))

parseFullDecisionResponse(response, accountEquity, btcEthLeverage, altcoinLeverage) ==
    validatedExtraction(extractCoTTrace(response),
                        extractDecisions(response),
                        accountEquity, btcEthLeverage, altcoinLeverage)

----------------------------------------------------------------------------
(* Inputs of the validation runs *)

Symbols == {"BTCUSDT", "ETHUSDT", "SOLUSDT", ""}

OpenActions == {"open_long", "open_short"}

Actions ==
    validActions \cup {"update_stop", "partial_close", ""}

Context(e, b, a) ==
    [TotalEquity |-> e, BTCETHLeverage |-> b, AltcoinLeverage |-> a]

\* the account equity and the configured ceilings
Contexts ==
    {Context(200, 3, 2), Context(200, 2, 3), Context(0, 3, 2),
     Context(-200, 3, 2)}

Leverages == {-1, 0, 2, 3, 4}

\* around the caps of equity 200: 1.5 x 200 x 1.01 = 303, 10 x 200 x 1.01 = 2020
Sizes == {-1, 0, 303, 304, 2020, 2021}

Prices == 0 .. MaxPrice

TakeProfits ==
    [1..3 -> Prices] \cup {<<>>, <<2, 3>>, <<1, 2, 3, 4>>, <<4, 3, 2, 1>>}

Decision(sym, act, lev, size, stop, tps) ==
    [Symbol |-> sym, Action |-> act, Leverage |-> lev,
     PositionSizeUSD |-> size, StopLoss |-> stop, TakeProfitLevels |-> tps]

OpenGrid ==
    { Decision(sym, act, lev, size, stop, tps) :
        sym \in Symbols, act \in OpenActions, lev \in Leverages,
        size \in Sizes, stop \in Prices, tps \in TakeProfits }

\* records of the other actions: their fields absent (zero) or filled in
OtherGrid ==
    { Decision(sym, act, lev, lev * 100, lev, tps) :
        sym \in Symbols, act \in Actions \ OpenActions, lev \in {0, 2},
        tps \in {<<>>, <<3, 2, 1>>} }

\* the records the batches are made of
SampleRecords ==
    { Decision("BTCUSDT", "open_long", 2, 303, 1, <<2, 3, 4>>),
      Decision("SOLUSDT", "open_short", 2, 303, 4, <<3, 2, 1>>),
      Decision("SOLUSDT", "open_long", 4, 303, 1, <<2, 3, 4>>),
      Decision("ETHUSDT", "open_long", 2, 303, 1, <<3, 2, 4>>),
      Decision("", "wait", 0, 0, 0, <<>>),
      Decision("SOLUSDT", "update_stop", 0, 0, 0, <<>>) }

SeqsUpTo(S, n) == UNION { [1..k -> S] : k \in 0..n }

\* the scenario of the spec: equity 5000, major-pair ceiling 5
ScenarioContext == Context(5000, 5, 5)

ScenarioGood ==
    Decision("ETHUSDT", "open_long", 3, 500, 3735, <<3966, 4081, 4197>>)

ScenarioBad ==
    Decision("ETHUSDT", "open_long", 3, 500, 3735, <<3966, 3900, 4197>>)

NoParse ==
    [result |-> FullDecision(<<>>, <<>>), err |-> NilErr,
     ex |-> Extraction(<<>>, NilErr, -1, -1, <<>>)]

\* decision is empty for nil, else holds the one FullDecision pointed to
Returned(decision, err) == [decision |-> decision, err |-> err]

NotReturned == Returned(<<>>, NilErr)

InitValidate ==
    /\ pc = "decoded"
    /\ \/ /\ ctx \in Contexts
          /\ decisions \in { <<d>> : d \in OpenGrid \cup OtherGrid }
                           \cup SeqsUpTo(SampleRecords, MaxBatch)
       \/ /\ ctx = ScenarioContext
          /\ decisions \in {<<ScenarioGood>>, <<ScenarioBad>>}
    /\ verr = NoError
    /\ aiResponse = <<>>
    /\ parsed = NoParse
    /\ returned = NotReturned
    /\ NoFetch
    /\ NoQuotes

\* validateDecisions is applied to the decoded batch
Validate ==
    /\ pc = "decoded"
    /\ verr' = validateDecisions(decisions, ctx.TotalEquity,
                                 ctx.BTCETHLeverage, ctx.AltcoinLeverage)
    /\ pc' = "validated"
    /\ UNCHANGED <<ctx, decisions, aiResponse, parsed, returned>>
    /\ UNCHANGED <<fetchVars, quoteVars>>

NextValidate == Validate

SpecValidate == InitValidate /\ [][NextValidate]_vars

----------------------------------------------------------------------------
(* Inputs of the pipeline runs: the responses of the AI *)

Quoted(content) == <<"\"">> \o content \o <<"\"">>

Member(key, value) == Quoted(<<key>>) \o <<":">> \o value

RECURSIVE Joined(_)
\* the texts of a sequence, separated by ","
Joined(texts) ==
    IF Len(texts) = 0 THEN <<>>
    ELSE IF Len(texts) = 1 THEN texts[1]
    ELSE texts[1] \o <<",">> \o Joined(Tail(texts))

NumberArray(ns) ==
    <<"[">> \o Joined([k \in 1..Len(ns) |-> NumTokens(ns[k])]) \o <<"]">>

\* the object the prompt asks for: the opening fields for an opening action
\* only, no symbol when there is none
Encode(d, reasoning) ==
    <<"{">>
    \o (IF d.Symbol = "" THEN <<>>
        ELSE Member("symbol", Quoted(<<d.Symbol>>)) \o <<",">>)
    \o Member("action", Quoted(IF d.Action = "" THEN <<>> ELSE <<d.Action>>))
    \o <<",">>
    \o (IF isOpen(d)
        THEN Member("leverage", NumTokens(d.Leverage)) \o <<",">>
             \o Member("position_size_usd", NumTokens(d.PositionSizeUSD))
             \o <<",">>
             \o Member("stop_loss", NumTokens(d.StopLoss)) \o <<",">>
             \o Member("take_profit_levels", NumberArray(d.TakeProfitLevels))
             \o <<",">>
        ELSE <<>>)
    \o Member("reasoning", Quoted(reasoning))
    \o <<"}">>

EncodeBatch(ds, reasoning) ==
    <<"[">> \o Joined([k \in 1..Len(ds) |-> Encode(ds[k], reasoning)])
            \o <<"]">>

\* the ASCII quotes of a text replaced by typographic ones, opening and
\* closing in turn
Typographic(s) ==
    [i \in 1..Len(s) |->
        IF s[i] # "\"" THEN s[i]
        ELSE IF Cardinality({j \in 1..(i - 1) : s[j] = "\""}) % 2 = 0
             THEN "U+201C" ELSE "U+201D"]

\* longest batch encoded into a response
MaxRecords == 2
\* longest response made of single characters
MaxLen == 4

PipelineRecords ==
    { Decision("BTCUSDT", "open_long", 2, 303, 1, <<2, 3, 4>>),
      Decision("SOLUSDT", "open_long", 2, 303, 1, <<3, 2, 4>>),
      Decision("", "wait", 0, 0, 0, <<>>),
      Decision("SOLUSDT", "update_stop", 0, 0, 0, <<>>) }

PipelineBatches ==
    SeqsUpTo(PipelineRecords, MaxRecords)
        \cup {<<ScenarioGood>>, <<ScenarioBad>>}

\* the reasoning of a record: plain, with brackets, with typographic quotes
Reasonings == {<<"x">>, <<"]", "[">>, <<"U+201C", "x", "U+201D">>}

Payloads ==
    UNION { LET p == EncodeBatch(b, r)
            IN  {p, SubSeq(p, 1, Len(p) - 1), Typographic(p)} :
            b \in PipelineBatches, r \in Reasonings }

Rationales == {<<>>, <<"x">>, <<" ", "rationale", " ", "text", "\n">>}

Suffixes == {<<>>, <<"\n", "x">>}

Responses ==
    { rat \o p \o suf : rat \in Rationales, p \in Payloads, suf \in Suffixes }
        \cup SeqsUpTo({"[", "]", "x", " "}, MaxLen)

PipelineContexts == {Context(200, 3, 2), ScenarioContext}

----------------------------------------------------------------------------
(* GetFullDecision, engine.go 107-132, from the call of the AI on *)

Init ==
    /\ pc = "start"
    /\ ctx \in PipelineContexts
    /\ aiResponse = <<>>
    /\ parsed = NoParse
    /\ returned = NotReturned
    /\ decisions = <<>>
    /\ verr = NoError
    /\ NoFetch
    /\ NoQuotes

\* mcpClient.CallWithMessages returns a response
CallAI ==
    /\ pc = "start"
    /\ aiResponse' \in Responses
    /\ pc' = "called"
    /\ UNCHANGED <<ctx, parsed, returned, decisions, verr>>
    /\ UNCHANGED <<fetchVars, quoteVars>>

\* mcpClient.CallWithMessages returns an error
CallAIFails ==
    /\ pc = "start"
    /\ returned' = Returned(<<>>, Error("api", <<"call AI API failed: ">>))
    /\ pc' = "returned"
    /\ UNCHANGED <<ctx, aiResponse, parsed, decisions, verr>>
    /\ UNCHANGED <<fetchVars, quoteVars>>

\* parseFullDecisionResponse(aiResponse, ...)
Parse ==
    /\ pc = "called"
    /\ \E r \in {parseFullDecisionResponse(aiResponse, ctx.TotalEquity,
                                          ctx.BTCETHLeverage,
                                          ctx.AltcoinLeverage)} :
           /\ parsed' = [result |-> r.result, err |-> r.err, ex |-> r.ex]
           /\ decisions' = r.ds
           /\ verr' = r.verr
    /\ pc' = "parsed"
    /\ UNCHANGED <<ctx, aiResponse, returned>>
    /\ UNCHANGED <<fetchVars, quoteVars>>

\* the return of GetFullDecision, engine.go 125-131
Return ==
    /\ pc = "parsed"
    /\ returned' =
          IF parsed.err # NilErr
          THEN Returned(<<>>,
                        Error(parsed.err.kind,
                              <<"parse AI response failed: ">>
                                  \o parsed.err.msg))
          ELSE Returned(<<[parsed.result EXCEPT
                              !.UserPrompt = <<"user prompt">>]>>, NilErr)
    /\ pc' = "returned"
    /\ UNCHANGED <<ctx, aiResponse, parsed, decisions, verr>>
    /\ UNCHANGED <<fetchVars, quoteVars>>

Next == CallAI \/ CallAIFails \/ Parse \/ Return

Spec == Init /\ [][Next]_vars

----------------------------------------------------------------------------
(* fetchMarketDataForContext, engine.go 134-206.  ctx holds the fields of  *)
(* Context it uses: Positions and CandidateCoins, by their symbols, and    *)
(* the two maps, as functions of the symbols they hold.                    *)

\* the floor of the notional open interest, in millions, engine.go 178
OIFloorMillions == 15
\* engine.go 177
Million == 1000000

\* market.Data, the fields the filter reads: hasOI is OpenInterest != nil,
\* Latest is OpenInterest.Latest
Data(hasOI, latest, price) ==
    [hasOI |-> hasOI, Latest |-> latest, CurrentPrice |-> price]

\* what market.Get returns: data and a nil error, or an error
Got(data) == [ok |-> TRUE, data |-> data]

GetError == [ok |-> FALSE, data |-> Data(FALSE, 0, 0)]

\* what pool.GetOITopPositions returns: positions and a nil error, or an error
OITop(positions) == [ok |-> TRUE, positions |-> positions]

OITopError == [ok |-> FALSE, positions |-> <<>>]

OIPosition(symbol, rank) == [Symbol |-> symbol, Rank |-> rank]

FetchContext(positions, candidateCoins) ==
    [Positions |-> positions, CandidateCoins |-> candidateCoins,
     MarketDataMap |-> <<>>, OITopDataMap |-> <<>>]

\* m[k] = v
MapPut(m, k, v) == (k :> v) @@ m

calculateMaxCandidates(c) == Len(c.CandidateCoins)

\* engine.go 158-161
positionSymbols(c) == { c.Positions[i] : i \in 1..Len(c.Positions) }

\* symbolSet as engine.go 140-154 fill it
collectSymbols(c) ==
    positionSymbols(c)
        \cup { c.CandidateCoins[i] :
                   i \in { j \in 1..Len(c.CandidateCoins) :
                               j - 1 < calculateMaxCandidates(c) } }

oiValue(data) == data.Latest * data.CurrentPrice

\* oiValueInMillions < 15, with oiValueInMillions = oiValue / 1_000_000
belowFloor(data) == oiValue(data) < OIFloorMillions * Million

\* the symbol is skipped by the liquidity filter, engine.go 173-183
skipped(c, symbol, data) ==
    /\ symbol \notin positionSymbols(c)
    /\ data.hasOI
    /\ data.CurrentPrice > 0
    /\ belowFloor(data)

\* variant: a failed fetch ends the batch with an empty snapshot map
fetchOneAbort(c, symbol, got) ==
    IF ~got.ok THEN [c EXCEPT !.MarketDataMap = <<>>]
    ELSE IF skipped(c, symbol, got.data) THEN c
    ELSE [c EXCEPT !.MarketDataMap = MapPut(@, symbol, got.data)]

\* one iteration of the loop over symbolSet, engine.go 164-185
fetchOne(c, symbol, got) ==
    IF ~got.ok THEN c
    ELSE IF skipped(c, symbol, got.data) THEN c
    ELSE [c EXCEPT !.MarketDataMap = MapPut(@, symbol, got.data)]

\* the loop over oiPositions, engine.go 191-202, from its k-th element on
RECURSIVE mergeOITop(_, _, _)
mergeOITop(m, oiPositions, k) ==
    IF k > Len(oiPositions) THEN m
    ELSE mergeOITop(MapPut(m, oiPositions[k].Symbol,
                           [Rank |-> oiPositions[k].Rank]),
                    oiPositions, k + 1)

\* most positions held
MaxPositions == 1
\* most candidate coins
MaxCandidateCoins == 2

FetchSymbols == {"BTCUSDT", "ETHUSDT", "SOLUSDT"}

\* a failure; no open-interest data; notional 14,999,999; 15,000,000;
\* 15,000,000 as 7,500,000 x 2; a price of zero
GetResults ==
    {GetError,
     Got(Data(FALSE, 0, 1)),
     Got(Data(TRUE, 14999999, 1)),
     Got(Data(TRUE, 15000000, 1)),
     Got(Data(TRUE, 7500000, 2)),
     Got(Data(TRUE, 15000000, 0))}

OITopResults ==
    {OITopError,
     OITop(<<>>),
     OITop(<<OIPosition("BTCUSDT", 1), OIPosition("XRPUSDT", 2),
             OIPosition("BTCUSDT", 3)>>)}

InitFetch ==
    /\ pc = "fetch"
    /\ ctx \in { FetchContext(ps, cs) :
                     ps \in SeqsUpTo(FetchSymbols, MaxPositions),
                     cs \in SeqsUpTo(FetchSymbols, MaxCandidateCoins) }
    /\ marketGet \in [collectSymbols(ctx) -> GetResults]
    /\ oiTopGet \in OITopResults
    /\ symbolSet = {}
    /\ fetchErr = "none"
    /\ aiResponse = <<>>
    /\ parsed = NoParse
    /\ returned = NotReturned
    /\ decisions = <<>>
    /\ verr = NoError
    /\ NoQuotes

\* engine.go 136-161: the maps are made and symbolSet is filled
CollectSymbols ==
    /\ pc = "fetch"
    /\ ctx' = [ctx EXCEPT !.MarketDataMap = <<>>, !.OITopDataMap = <<>>]
    /\ symbolSet' = collectSymbols(ctx)
    /\ pc' = "fetching"
    /\ UNCHANGED <<marketGet, oiTopGet, fetchErr, quoteVars>>
    /\ UNCHANGED <<aiResponse, parsed, returned, decisions, verr>>

\* one iteration of the loop over symbolSet, in the order the map yields
FetchSymbol ==
    /\ pc = "fetching"
    /\ \E symbol \in symbolSet :
           /\ ctx' = fetchOne(ctx, symbol, marketGet[symbol])
           /\ symbolSet' = symbolSet \ {symbol}
    /\ UNCHANGED <<pc, marketGet, oiTopGet, fetchErr, quoteVars>>
    /\ UNCHANGED <<aiResponse, parsed, returned, decisions, verr>>

\* engine.go 188-205: the ranking is merged if it was got, and nil returned
LoadOITop ==
    /\ pc = "fetching"
    /\ symbolSet = {}
    /\ ctx' = IF oiTopGet.ok
              THEN [ctx EXCEPT !.OITopDataMap =
                                   mergeOITop(@, oiTopGet.positions, 1)]
              ELSE ctx
    /\ fetchErr' = "nil"
    /\ pc' = "fetched"
    /\ UNCHANGED <<marketGet, oiTopGet, symbolSet, quoteVars>>
    /\ UNCHANGED <<aiResponse, parsed, returned, decisions, verr>>

NextFetch == CollectSymbols \/ FetchSymbol \/ LoadOITop

SpecFetch == InitFetch /\ [][NextFetch]_vars

----------------------------------------------------------------------------
(* fixMissingQuotes applied to a text, and applied again to its result *)

\* longest text
MaxText == 3
\* most applications in a row
MaxApplications == 2

QuoteAlphabet == {"U+201C", "U+201D", "U+2018", "U+2019", "\"", "'", "x"}

InitQuotes ==
    /\ pc = "quotes"
    /\ rawText \in SeqsUpTo(QuoteAlphabet, MaxText)
    /\ fixed = <<>>
    /\ ctx = ScenarioContext
    /\ aiResponse = <<>>
    /\ parsed = NoParse
    /\ returned = NotReturned
    /\ decisions = <<>>
    /\ verr = NoError
    /\ NoFetch

\* jsonContent = fixMissingQuotes(jsonContent), engine.go 762
FixQuotes ==
    /\ pc = "quotes"
    /\ Len(fixed) < MaxApplications
    /\ fixed' = Append(fixed,
                       fixMissingQuotes(IF Len(fixed) = 0 THEN rawText
                                        ELSE fixed[Len(fixed)]))
    /\ UNCHANGED <<pc, rawText, fetchVars>>
    /\ UNCHANGED <<ctx, aiResponse, parsed, returned, decisions, verr>>

NextQuotes == FixQuotes

SpecQuotes == InitQuotes /\ [][NextQuotes]_vars

----------------------------------------------------------------------------
(* What the specification says of a record, stated without the operators   *)
(* that model the code.                                                    *)

Validated == pc = "validated"

\* the records validateDecisions looked at: all of them when it returned nil,
\* those up to the one its error names otherwise
Judged == IF verr = NoError THEN 1..Len(decisions) ELSE 1..verr.index

\* the rule record i was rejected by, "nil" when it passed
Outcome(i) == IF verr # NoError /\ verr.index = i THEN verr.rule ELSE "nil"

JudgedOpen ==
    { i \in Judged : decisions[i].Action \in OpenActions }

MajorPairs == {"BTCUSDT", "ETHUSDT"}

Ceiling(d) ==
    IF d.Symbol \in MajorPairs THEN ctx.BTCETHLeverage
                               ELSE ctx.AltcoinLeverage

LeverageInBound(d) == 0 < d.Leverage /\ d.Leverage <= Ceiling(d)

\* size <= cap x 1.01, cap = 10 x equity (major pairs) or 1.5 x equity
SizeWithinCap(d) ==
    IF d.Symbol \in MajorPairs
    THEN 100 * d.PositionSizeUSD <= 1010 * ctx.TotalEquity
    ELSE 200 * d.PositionSizeUSD <= 303 * ctx.TotalEquity

SizeOk(d) == d.PositionSizeUSD > 0 /\ SizeWithinCap(d)

ThreePositiveTakeProfits(d) ==
    /\ Len(d.TakeProfitLevels) = 3
    /\ \A k \in 1..3 : d.TakeProfitLevels[k] > 0

\* stop < tp[0] for a long, stop > tp[0] for a short
StopBeyondFirst(d) ==
    /\ Len(d.TakeProfitLevels) >= 1
    /\ IF d.Action = "open_long" THEN d.StopLoss < d.TakeProfitLevels[1]
                                 ELSE d.StopLoss > d.TakeProfitLevels[1]

\* tp[0] < tp[1] < tp[2] for a long, tp[0] > tp[1] > tp[2] for a short
TakeProfitsOrdered(d) ==
    /\ Len(d.TakeProfitLevels) = 3
    /\ LET tp == d.TakeProfitLevels
       IN  IF d.Action = "open_long" THEN tp[1] < tp[2] /\ tp[2] < tp[3]
                                     ELSE tp[1] > tp[2] /\ tp[2] > tp[3]

Abs(x) == IF x < 0 THEN -x ELSE x

\* reward / risk >= 2 for the entry 20% of the way from the stop to tp[0]:
\* with entry = stop + (tp[0] - stop) / 5, five times risk and reward are
\* |5 entry - 5 stop| and |5 tp[0] - 5 entry|
RiskRewardAtLeastTwo(d) ==
    /\ Len(d.TakeProfitLevels) >= 1
    /\ LET entry5  == 4 * d.StopLoss + d.TakeProfitLevels[1]
           risk5   == Abs(entry5 - 5 * d.StopLoss)
           reward5 == Abs(5 * d.TakeProfitLevels[1] - entry5)
       IN  risk5 > 0 /\ reward5 >= 2 * risk5

OrderingRules == {"stop_order", "tp_order"}

\* the checks that precede the ordering of the take-profits
PassesUpToStopOrder(d) ==
    /\ LeverageInBound(d)
    /\ SizeOk(d)
    /\ d.StopLoss > 0
    /\ ThreePositiveTakeProfits(d)
    /\ StopBeyondFirst(d)

----------------------------------------------------------------------------
(* C1 *)

FailingRecords ==
    { i \in 1..Len(decisions) :
        validateDecision(decisions[i], ctx.TotalEquity, ctx.BTCETHLeverage,
                         ctx.AltcoinLeverage) # NoError }

Least(S) == CHOOSE m \in S : \A k \in S : m <= k

\* C1: validateDecisions returns nil iff every record passes
\* validateDecision; otherwise it returns the error of the failing record of
\* smallest index, naming it by its 1-based position.
C1_BatchFailFast ==
    Validated =>
        IF FailingRecords = {}
        THEN verr = NoError
        ELSE LET m == Least(FailingRecords)
                 e == validateDecision(decisions[m], ctx.TotalEquity,
                                       ctx.BTCETHLeverage, ctx.AltcoinLeverage)
             IN  /\ verr.index = m
                 /\ verr.rule = e.rule
                 /\ verr.args = e.args

\* a batch of three whose second and third records fail by different rules
C1_Witness ==
    /\ Validated
    /\ Len(decisions) = 3
    /\ FailingRecords = {2, 3}
    /\ verr.index = 2
    /\ verr.rule = "leverage"
    /\ decisions[3].Action = "update_stop"

----------------------------------------------------------------------------
(* C2 *)

\* C2 as stated: an open record whose take-profits are out of order is
\* rejected with an ordering error, whatever else is wrong with it.
C2_OrderingErrorWhenever ==
    Validated =>
        \A i \in JudgedOpen :
            (Len(decisions[i].TakeProfitLevels) = 3
               /\ ~TakeProfitsOrdered(decisions[i]))
            => Outcome(i) \in OrderingRules

\* C2, amended: an open record is accepted iff stop and take-profits are
\* strictly ordered in its direction and the other invariants hold; a record
\* whose take-profits are out of order is always rejected, and with the
\* take-profit ordering error when every earlier check passes.  The
\* scenario record is rejected with that error at record #1.
C2_Ordering ==
    Validated =>
        /\ \A i \in JudgedOpen :
             LET d == decisions[i]
             IN  /\ Outcome(i) = "nil" <=>
                       /\ PassesUpToStopOrder(d)
                       /\ TakeProfitsOrdered(d)
                       /\ RiskRewardAtLeastTwo(d)
                 /\ (Len(d.TakeProfitLevels) = 3 /\ ~TakeProfitsOrdered(d))
                       => Outcome(i) # "nil"
                 /\ (PassesUpToStopOrder(d) /\ ~TakeProfitsOrdered(d))
                       => Outcome(i) = "tp_order"
        /\ (ctx = ScenarioContext /\ decisions = <<ScenarioBad>>)
             => (verr.rule = "tp_order" /\ verr.index = 1)
        /\ (ctx = ScenarioContext /\ decisions = <<ScenarioGood>>)
             => verr = NoError

\* the scenario record [3966, 3900, 4197] has been rejected
C2_Witness ==
    /\ Validated
    /\ ctx = ScenarioContext
    /\ decisions = <<ScenarioBad>>
    /\ verr.rule = "tp_order"

----------------------------------------------------------------------------
(* C3 *)

\* C3: an open record is rejected by the leverage rule iff its leverage is
\* not in 0 < leverage <= ceiling, the ceiling being the major-pair one for
\* BTCUSDT and ETHUSDT and the other one for every other symbol; an accepted
\* open record has its leverage within the bound.
C3_LeverageBound ==
    Validated =>
        \A i \in JudgedOpen :
            /\ Outcome(i) = "leverage" <=> ~LeverageInBound(decisions[i])
            /\ Outcome(i) = "nil" => LeverageInBound(decisions[i])

\* a record with the empty symbol accepted at the other-asset ceiling
C3_Witness ==
    /\ Validated
    /\ Len(decisions) = 1
    /\ decisions[1].Action \in OpenActions
    /\ decisions[1].Symbol = ""
    /\ decisions[1].Leverage = ctx.AltcoinLeverage
    /\ ctx.AltcoinLeverage # ctx.BTCETHLeverage
    /\ verr = NoError

----------------------------------------------------------------------------
(* C4 *)

\* C4: an open record whose leverage is in bound is rejected by a size rule
\* iff not (size > 0 and size <= cap x 1.01); with equity <= 0 no open record
\* passes.
C4_PositionSizeBound ==
    Validated =>
        \A i \in JudgedOpen :
            LET d == decisions[i]
            IN  /\ LeverageInBound(d) =>
                     /\ Outcome(i) = "size_positive" <=> d.PositionSizeUSD <= 0
                     /\ Outcome(i) = "size_cap" <=>
                           (d.PositionSizeUSD > 0 /\ ~SizeWithinCap(d))
                /\ Outcome(i) = "nil" => SizeOk(d)
                /\ ctx.TotalEquity <= 0 => Outcome(i) # "nil"

\* a record of size exactly cap x 1.01 (1.5 x 200 x 1.01) accepted
C4_Witness ==
    /\ Validated
    /\ Len(decisions) = 1
    /\ decisions[1].Action \in OpenActions
    /\ decisions[1].Symbol = "SOLUSDT"
    /\ 200 * decisions[1].PositionSizeUSD = 303 * ctx.TotalEquity
    /\ ctx.TotalEquity > 0
    /\ verr = NoError

----------------------------------------------------------------------------
(* C5 *)

EarlierRules ==
    {"action", "leverage", "size_positive", "size_cap", "stop_positive",
     "tp_count", "tp_positive", "stop_order", "tp_order"}

----------------------------------------------------------------------------
(* C6 *)

RuleOrder ==
    <<"leverage", "size_positive", "size_cap", "stop_positive", "tp_count",
      "tp_positive", "ordering", "risk_reward">>

Violates(rule, d) ==
    CASE rule = "leverage"      -> ~LeverageInBound(d)
      [] rule = "size_positive" -> d.PositionSizeUSD <= 0
      [] rule = "size_cap"      -> ~SizeWithinCap(d)
      [] rule = "stop_positive" -> d.StopLoss <= 0
      [] rule = "tp_count"      -> Len(d.TakeProfitLevels) # 3
      [] rule = "tp_positive"   ->
             \E k \in 1..Len(d.TakeProfitLevels) : d.TakeProfitLevels[k] <= 0
      [] rule = "ordering"      ->
             Len(d.TakeProfitLevels) = 3
                /\ ~(StopBeyondFirst(d) /\ TakeProfitsOrdered(d))
      [] rule = "risk_reward"   ->
             Len(d.TakeProfitLevels) >= 1 /\ ~RiskRewardAtLeastTwo(d)

ViolatedRules(d) == { k \in 1..Len(RuleOrder) : Violates(RuleOrder[k], d) }

FirstViolated(d) ==
    IF ViolatedRules(d) = {} THEN "nil"
    ELSE RuleOrder[Least(ViolatedRules(d))]

RuleClass(rule) == IF rule \in OrderingRules THEN "ordering" ELSE rule

\* C6: the error of an open record is the one of the earliest violated rule
\* in the order leverage, size positivity, size cap, stop positivity,
\* take-profit count, take-profit positivity, ordering, risk:reward.
C6_CheckOrder ==
    Validated =>
        \A i \in JudgedOpen :
            RuleClass(Outcome(i)) = FirstViolated(decisions[i])

\* a record that violates the size cap, the stop positivity and the
\* take-profit count at once is rejected by the size cap
C6_Witness ==
    /\ Validated
    /\ Len(decisions) = 1
    /\ decisions[1].Action \in OpenActions
    /\ {3, 4, 5} \subseteq ViolatedRules(decisions[1])
    /\ verr.rule = "size_cap"

----------------------------------------------------------------------------
(* Required fields, recognized actions, the risk:reward computation        *)

CloseActions == {"close_long", "close_short"}

\* C13: a close_long or close_short record with no symbol is rejected by
\* validation, and so is an open_long or open_short record with no symbol.
C13_RequiredFields ==
    Validated =>
        \A i \in Judged :
            (/\ decisions[i].Action \in CloseActions \cup OpenActions
             /\ decisions[i].Symbol = "") => Outcome(i) # "nil"

\* an open record with no symbol that breaks the leverage rule is rejected
C13_Witness ==
    /\ Validated
    /\ Len(decisions) = 1
    /\ decisions[1].Action \in OpenActions
    /\ decisions[1].Symbol = ""
    /\ ~LeverageInBound(decisions[1])
    /\ verr # NoError

Recognized ==
    {"open_long", "open_short", "close_long", "close_short", "hold", "wait"}

PricesInOrder(d) ==
    /\ d.StopLoss > 0
    /\ ThreePositiveTakeProfits(d)
    /\ StopBeyondFirst(d)
    /\ TakeProfitsOrdered(d)

\* the assumed entry lies strictly between the stop and tp[0]
EntryBetween(d) ==
    IF d.Action = "open_long"
    THEN /\ PriceScale * d.StopLoss < entryPrice(d)
         /\ entryPrice(d) < PriceScale * d.TakeProfitLevels[1]
    ELSE /\ PriceScale * d.TakeProfitLevels[1] < entryPrice(d)
         /\ entryPrice(d) < PriceScale * d.StopLoss

\* C16: for every open record whose stop and take-profits are positive and
\* in order, the assumed entry lies strictly between the stop and tp[0], the
\* risk is positive and the computed ratio is 4; no record is rejected by
\* the risk:reward rule.
C16_RiskRewardNeverRejects ==
    Validated =>
        /\ verr.rule # "risk_reward"
        /\ \A i \in 1..Len(decisions) :
               (decisions[i].Action \in OpenActions
                    /\ PricesInOrder(decisions[i])) =>
                   /\ EntryBetween(decisions[i])
                   /\ FracPos(riskPercent(decisions[i]))
                   /\ riskRewardRatio(decisions[i]).n
                          = 4 * riskRewardRatio(decisions[i]).d

\* the record of the scenario, stop 3735 and tp[0] 3966, reached the check
\* with a ratio of 4 and was accepted
C16_Witness ==
    /\ Validated
    /\ decisions = <<ScenarioGood>>
    /\ PricesInOrder(decisions[1])
    /\ riskRewardRatio(decisions[1]).n = 4 * riskRewardRatio(decisions[1]).d
    /\ verr = NoError

----------------------------------------------------------------------------
(* The response pipeline                                                   *)

AfterParse == pc \in {"parsed", "returned"}

\* how many times the character c occurs in s
Count(s, c) == Cardinality({i \in 1..Len(s) : s[i] = c})

\* the index of the "]" that closes the array opening at index k of s, read
\* as JSON text (brackets inside string values are content); -1 if s[k:] does
\* not begin with a well-formed value
ClosedArrayEnd(s, k) ==
    IF k # -1 /\ parseValue(s, k + 1).ok
    THEN parseValue(s, k + 1).pos - 2
    ELSE -1

\* the first "[" of s begins a well-formed array in which "[" and "]",
\* all counted, are balanced
BalancedPayload(s, k) ==
    /\ ClosedArrayEnd(s, k) # -1
    /\ Count(Slice(s, k, ClosedArrayEnd(s, k) + 1), "[")
           = Count(Slice(s, k, ClosedArrayEnd(s, k) + 1), "]")

\* from index k on, the count of "[" never equals that of "]"
DepthNeverZero(s, k) ==
    \A e \in k..(Len(s) - 1) :
        Count(Slice(s, k, e + 1), "[") # Count(Slice(s, k, e + 1), "]")

ExtractsWholeArray(s, k) ==
    /\ BalancedPayload(s, k) =>
           parsed.ex.arrayEnd = ClosedArrayEnd(s, k)
    /\ (k # -1 /\ DepthNeverZero(s, k)) =>
           parsed.ex.arrayEnd = -1 /\ parsed.ex.err.kind = "no_end"

\* C7: when the first "[" of the response begins a well-formed array with
\* balanced brackets, the end found is the "]" that closes it; when the depth
\* never returns to zero the end is -1 and the extraction fails.
C7_BracketBalancedExtraction ==
    AfterParse => ExtractsWholeArray(aiResponse, Index(aiResponse, "["))

\* a payload with a nested array (the take-profit levels) is extracted up to
\* its last character
C7_Witness ==
    /\ AfterParse
    /\ BalancedPayload(aiResponse, Index(aiResponse, "["))
    /\ Count(aiResponse, "[") >= 2
    /\ parsed.ex.arrayEnd = ClosedArrayEnd(aiResponse, Index(aiResponse, "["))
    /\ parsed.ex.arrayEnd > Index(Slice(aiResponse, 0, Len(aiResponse)), "]")

\* the rationale of a response whose first "[" is at index k (-1: none)
RationaleBefore(s, k) ==
    IF k = -1 THEN TrimSpace(s) ELSE TrimSpace(Slice(s, 0, k))

\* C8: the rationale is the trimmed text before the first "[" of the
\* response, for every index of that "[", 0 included, and the whole trimmed
\* response when there is none; the payload starts at that same "[".
C8_ResponseSplitting ==
    AfterParse =>
        /\ parsed.result.CoTTrace
               = RationaleBefore(aiResponse, Index(aiResponse, "["))
        /\ parsed.ex.arrayStart = Index(aiResponse, "[")

\* a response with text before its first "[" is split at that "["
C8_Witness ==
    /\ AfterParse
    /\ Index(aiResponse, "[") > 0
    /\ parsed.result.CoTTrace # <<>>
    /\ parsed.result.CoTTrace
           = RationaleBefore(aiResponse, Index(aiResponse, "["))
    /\ parsed.ex.arrayStart = Index(aiResponse, "[")

\* C9: when extraction, decoding or validation fails, the result returned
\* with the error carries no record and GetFullDecision returns no decision;
\* records are returned only when every record passed validation.
C9_FailedCycleNoInstructions ==
    /\ (AfterParse /\ parsed.err # NilErr) =>
           parsed.result.Decisions = <<>>
    /\ (pc = "returned" /\ returned.err # NilErr) =>
           returned.decision = <<>>
    /\ (pc = "returned" /\ returned.decision # <<>>) =>
           verr = NoError /\ parsed.err = NilErr

\* a batch that fails validation: GetFullDecision returns no decision
C9_Witness ==
    /\ pc = "returned"
    /\ parsed.err.kind = "validation"
    /\ returned.decision = <<>>
    /\ returned.err # NilErr

\* the text t occurs in the message msg
Contains(msg, t) ==
    \E i \in 0..(Len(msg) - Len(t)) : SubSeq(msg, i + 1, i + Len(t)) = t

RationaleInErrors(rationale) ==
    /\ Contains(parsed.err.msg, cotBanner \o rationale)
    /\ parsed.result.CoTTrace = rationale
    /\ pc = "returned" => Contains(returned.err.msg, cotBanner \o rationale)

\* C10 without its last clause: every failure carries the rationale as
\* extractCoTTrace produced it
C10_RationaleAsExtracted ==
    (AfterParse /\ parsed.err # NilErr) =>
        RationaleInErrors(extractCoTTrace(aiResponse))

\* C10: every failure (no array start or end, decoding, validation) carries
\* the rationale as extractCoTTrace produced it, in the error of
\* parseFullDecisionResponse, in the result's CoTTrace and in the error of
\* GetFullDecision; for a payload without its closing "]" that rationale is
\* the trimmed text before the first "[".
C10_RationaleRetained ==
    (AfterParse /\ parsed.err # NilErr) =>
        /\ RationaleInErrors(extractCoTTrace(aiResponse))
        /\ parsed.err.kind = "no_end" =>
               parsed.result.CoTTrace
                   = RationaleBefore(aiResponse, Index(aiResponse, "["))

\* a payload without its closing "]" after a rationale: the error returned
\* by GetFullDecision carries the rationale
C10_Witness ==
    /\ pc = "returned"
    /\ parsed.err.kind = "no_end"
    /\ Index(aiResponse, "[") > 0
    /\ parsed.result.CoTTrace # <<>>
    /\ Contains(returned.err.msg, cotBanner \o parsed.result.CoTTrace)

----------------------------------------------------------------------------
(* The collection of market data                                           *)

Fetched == pc = "fetched"

\* the symbols of the snapshot map
Snapshot == DOMAIN ctx.MarketDataMap

\* the symbols of the existing positions
Held == { ctx.Positions[i] : i \in 1..Len(ctx.Positions) }

\* the positions and all the candidates
Wanted ==
    Held \cup { ctx.CandidateCoins[i] : i \in 1..Len(ctx.CandidateCoins) }

\* the symbols whose fetch succeeded
Got_ok == { sym \in Wanted : marketGet[sym].ok }

\* latest open-interest quantity x current price; zero without
\* open-interest data
Notional(sym) ==
    IF marketGet[sym].data.hasOI
    THEN marketGet[sym].data.Latest * marketGet[sym].data.CurrentPrice
    ELSE 0

AtLeastFloor(sym) == Notional(sym) >= OIFloorMillions * Million

\* C11: after the fetch, a fetched symbol that is not a position is in the
\* snapshot map iff its notional open interest is at least 15,000,000 (a
\* notional of zero from a zero price or from missing data is excluded); a
\* fetched position is in it whatever its notional.
C11_LiquidityFloor ==
    Fetched =>
        \A sym \in Got_ok :
            IF sym \in Held THEN sym \in Snapshot
            ELSE sym \in Snapshot <=> AtLeastFloor(sym)

\* of two fetched symbols at 14,999,999 the candidate is excluded and the
\* position, which is a candidate as well, is retained
C11_Witness ==
    /\ Fetched
    /\ \E b, c \in Got_ok :
           /\ b \notin Held /\ Notional(b) = 14999999 /\ b \notin Snapshot
           /\ c \in Held /\ Notional(c) = 14999999 /\ c \in Snapshot
           /\ \E i \in 1..Len(ctx.CandidateCoins) : ctx.CandidateCoins[i] = c

\* the liquidity filter does not exclude the symbol: the filter applies to a
\* symbol that is not a position, has open-interest data and a positive price
PassesFilter(sym) ==
    \/ sym \in Held
    \/ ~marketGet[sym].data.hasOI
    \/ marketGet[sym].data.CurrentPrice <= 0
    \/ AtLeastFloor(sym)

\* the symbols the loop has visited
Visited == Wanted \ symbolSet

----------------------------------------------------------------------------
(* The normalization of the payload                                        *)

TypographicQuotes == {"U+201C", "U+201D", "U+2018", "U+2019"}

\* the ASCII equivalent of a character
Plain(c) ==
    IF c \in {"U+201C", "U+201D"} THEN "\""
    ELSE IF c \in {"U+2018", "U+2019"} THEN "'"
    ELSE c

RawPayload ==
    TrimSpace(Slice(aiResponse, parsed.ex.arrayStart,
                    parsed.ex.arrayEnd + 1))

Extracted == AfterParse /\ parsed.ex.arrayEnd # -1

\* b decodes whenever a does, and to the same records
DecodesAs(a, b) ==
    a.ok => /\ b.ok
            /\ Len(b.decisions) = Len(a.decisions)
            /\ \A k \in 1..Len(a.decisions) : b.decisions[k] = a.decisions[k]

\* C17: when the extracted payload decodes before normalization, the
\* normalized payload decodes as well, to as many records with the same
\* symbol, action and numeric fields.
C17_NormalizationKeepsDecodable ==
    Extracted =>
        DecodesAs(Unmarshal(RawPayload), Unmarshal(parsed.ex.jsonContent))

\* a payload of two records that decodes before normalization and decodes to
\* the same records after it
C17_Witness ==
    /\ Extracted
    /\ Unmarshal(RawPayload).ok
    /\ Len(Unmarshal(RawPayload).decisions) = 2
    /\ parsed.ex.err = NilErr
    /\ parsed.ex.decisions = Unmarshal(RawPayload).decisions

============================================================================
